---------------------------- MODULE Spec2Model ----------------------------
(***************************************************************************)
(* The interactive window component of src/ftxui/component/window.cpp:     *)
(* WindowImpl::OnEvent (the pointer state machine: hover, drag, resize,    *)
(* exclusive capture), WindowImpl::Render (which records box_ and          *)
(* box_window_) and DropShadowDecorator::Render (which paints the shadow   *)
(* of the frame).  Every per-window field is a function over the set of    *)
(* windows that exist, so that several windows can share the screen's      *)
(* single capture flag.                                                    *)
(***************************************************************************)
EXTENDS Integers, Sequences, FiniteSets, TLC

\* ------------------------------------------------------------------ bounds
\* Pointer events carry a cell (x, y) with 0 <= x <= MaxX and 0 <= y <= MaxY.
MaxX == 1
MaxY == 1
\* At most MaxGestures gestures are started in a run of Spec, and one more in
\* a run of SpecLong (a press that would start another is not delivered).
MaxGestures == 1
\* The parent's layout hands the window a box whose origin is (o, o) with
\* 0 <= o <= MaxOrigin.
MaxOrigin == 1
\* Extent of the parent's box in each direction.
ScreenDim == 6
\* In a run of SpecFrames a window is constructed with a width and a height
\* of 1 .. MaxSize.
MaxSize == 4

\* ------------------------------------------------------------------ state
VARIABLES
  \* WindowOptions (the caller's configuration, held by reference)
  title, left, top, width, height, resize,
  \* WindowOptions::render is set: a render-override function is configured
  render,
  \* WindowImpl's fields
  box_, box_window_, captured_mouse_,
  drag_start_x, drag_start_y, resize_start_x, resize_start_y,
  mouse_hover_, drag_, resize_bottom_right_, resize_bottom_right_hover_,
  \* the screen: its exclusive-capture flag, and the component holding focus
  mouse_captured, focused,
  \* the paints the last frame of each window made on the screen's cells,
  \* in the order they were made
  painted,
  \* the last call of OnEvent or Render: its argument, the line of the return
  \* statement it left by (0: neither was called last), its result, and what
  \* the window and the screen held when it was entered
  event, ret, handled, pre,
  \* history: the current gesture (see GestureAtPress), and the number of
  \* gestures that may still be started
  gest, gestures

options == <<title, left, top, width, height, resize, render>>
fields  == <<box_, box_window_, captured_mouse_,
             drag_start_x, drag_start_y, resize_start_x, resize_start_y,
             mouse_hover_, drag_, resize_bottom_right_,
             resize_bottom_right_hover_>>
screen  == <<mouse_captured, focused>>
call    == <<event, ret, handled, pre>>
hist    == <<gest, gestures>>
vars    == <<options, fields, screen, painted, call, hist>>

Windows == DOMAIN left

Max(a, b) == IF a >= b THEN a ELSE b

Upd(f, w, v) == [f EXCEPT ![w] = v]

\* --------------------------------------------------------------- geometry
\* Box: inclusive bounds, all zero when default-constructed.
DefaultBox == [x_min |-> 0, x_max |-> 0, y_min |-> 0, y_max |-> 0]

\* Box::Contain
Contain(b, x, y) ==
  /\ b.x_min <= x /\ x <= b.x_max
  /\ b.y_min <= y /\ y <= b.y_max

\* The box the parent's layout gives the component, with origin (ox, oy).
ParentBox(ox, oy) ==
  [x_min |-> ox, x_max |-> ox + ScreenDim - 1,
   y_min |-> oy, y_max |-> oy + ScreenDim - 1]

\* (PositionAndSize, were the padding left out.)
PositionAndSize_NoPadding(b, l, t, wd, ht) ==
  [x_min |-> b.x_min, x_max |-> b.x_min + wd - 1,
   y_min |-> b.y_min, y_max |-> b.y_min + ht - 1]

\* PositionAndSize: the element sized width x height, behind `left` columns
\* and below `top` rows of padding, inside the box b.
PositionAndSize(b, l, t, wd, ht) ==
  [x_min |-> b.x_min + l, x_max |-> b.x_min + l + wd - 1,
   y_min |-> b.y_min + t, y_max |-> b.y_min + t + ht - 1]

\* ----------------------------------------------------------------- events
\* The (button, motion) pairs delivered: a press and a release of the left
\* button, a press of another button, a motion with the left button down.
Kinds == {<<"Left", "Pressed">>, <<"Left", "Released">>,
          <<"Right", "Pressed">>, <<"Left", "Moved">>}

\* Pointer events the inner content leaves to the window.
MouseEvents(W) ==
  {[w |-> w, is_mouse |-> TRUE, x |-> x, y |-> y,
    button |-> k[1], motion |-> k[2], inner |-> FALSE] :
     w \in W, x \in 0..MaxX, y \in 0..MaxY, k \in Kinds}

\* Pointer events the inner content handles.  The window returns before it
\* reads anything of such an event, so one cell stands for all.
InnerMouseEvents(W) ==
  {[w |-> w, is_mouse |-> TRUE, x |-> 0, y |-> 0,
    button |-> k[1], motion |-> k[2], inner |-> TRUE] :
     w \in W, k \in Kinds}

\* Events that are not pointer events (keys, ...); the pointer fields are
\* not read for them.
OtherEvents(W) ==
  [w : W, is_mouse : {FALSE}, x : {0}, y : {0},
   button : {"Left"}, motion : {"Pressed"}, inner : BOOLEAN]

Events(W) == MouseEvents(W) \cup InnerMouseEvents(W) \cup OtherEvents(W)

NoEvent == [w |-> 0, is_mouse |-> FALSE, x |-> 0, y |-> 0,
            button |-> "Left", motion |-> "Pressed", inner |-> FALSE]

\* ---------------------------------------------------------------- history
\* The window w and the screen, as a call finds them.
Snapshot(w) ==
  [w |-> w, left |-> left[w], top |-> top[w], width |-> width[w],
   height |-> height[w], box_ |-> box_[w], box_window_ |-> box_window_[w],
   captured_mouse_ |-> captured_mouse_[w],
   drag_start_x |-> drag_start_x[w], drag_start_y |-> drag_start_y[w],
   resize_start_x |-> resize_start_x[w],
   resize_start_y |-> resize_start_y[w],
   mouse_hover_ |-> mouse_hover_[w], drag_ |-> drag_[w],
   resize_bottom_right_ |-> resize_bottom_right_[w],
   resize_bottom_right_hover_ |-> resize_bottom_right_hover_[w],
   mouse_captured |-> mouse_captured, focused |-> focused,
   painted |-> painted[w]]

NoSnapshot ==
  [w |-> 0, left |-> 0, top |-> 0, width |-> 0, height |-> 0,
   box_ |-> DefaultBox, box_window_ |-> DefaultBox,
   captured_mouse_ |-> FALSE,
   drag_start_x |-> 0, drag_start_y |-> 0,
   resize_start_x |-> 0, resize_start_y |-> 0,
   mouse_hover_ |-> FALSE, drag_ |-> FALSE,
   resize_bottom_right_ |-> FALSE, resize_bottom_right_hover_ |-> FALSE,
   mouse_captured |-> FALSE, focused |-> 0, painted |-> <<>>]

NoGest == [x |-> 0, y |-> 0, left |-> 0, top |-> 0, width |-> 0, height |-> 0,
           ox |-> 0, oy |-> 0, lx |-> 0, ly |-> 0, stable |-> TRUE]

\* What the press that starts a gesture sees: the pointer, the geometry and
\* the origin of box_.  (lx, ly) is the pointer of the last event of the
\* gesture that recomputed the geometry, the press counting as the first.
GestureAtPress(w, e) ==
  [x |-> e.x, y |-> e.y, left |-> left[w], top |-> top[w],
   width |-> width[w], height |-> height[w],
   ox |-> box_[w].x_min, oy |-> box_[w].y_min,
   lx |-> e.x, ly |-> e.y, stable |-> TRUE]

GestureAtMotion(w, e) ==
  [gest[w] EXCEPT !.lx = e.x, !.ly = e.y,
                  !.stable = /\ @
                             /\ box_[w].x_min = gest[w].ox
                             /\ box_[w].y_min = gest[w].oy]

\* ------------------------------------------------------- OnEvent's pieces
\* The screen grants exclusive capture iff nobody holds it.
CaptureMouse == ~mouse_captured

\* (AfterProbe, were the token of a granted probe kept.)
AfterProbe_Retained == IF CaptureMouse THEN TRUE ELSE mouse_captured

\* The screen's capture flag after a request whose result is only tested:
\* a granted token is a temporary, destroyed (and the capture dropped) at
\* the end of the expression that tests it.
AfterProbe == IF CaptureMouse THEN FALSE ELSE mouse_captured

\* (Capturing, were the screen's flag tested instead of the window's token.)
Capturing_Screen(w) == mouse_captured

\* if (captured_mouse_): the window holds a capture token.
Capturing(w) == captured_mouse_[w]

\* (IsRelease, were the release not told from the other events of a gesture.)
IsRelease_Never(e) == FALSE

\* The event that ends a gesture.
IsRelease(e) == e.motion = "Released"

\* (ResizeHover, were the resize option not applied.)
ResizeHover_IgnoresOption(w, e, hover) ==
  /\ hover
  /\ e.x = box_window_[w].x_max /\ e.y = box_window_[w].y_max

\* resize_bottom_right_hover_: the pointer is on the bottom-right cell of
\* box_window_, and the resize option is on.
ResizeHover(w, e, hover) ==
  /\ hover
  /\ e.x = box_window_[w].x_max /\ e.y = box_window_[w].y_max
  /\ resize[w]

\* Only a press of the left button goes past the button test.
IsLeftPress(e) == e.button = "Left" /\ e.motion = "Pressed"

\* (ResizedWidth, were the width recomputed from the pointer's distance to
\* the left edge of box_window_ instead of from the offset of the press.)
ResizedWidth_Absolute(w, e) == e.x - box_window_[w].x_min + 1
\* (DraggedLeft, were the origin of box_ not subtracted.)
DraggedLeft_NoOrigin(w, e) == e.x - drag_start_x[w]

\* The geometry a pointer event gives during a gesture: the pointer, less
\* the offset recorded at the press, less the origin of box_.
ResizedWidth(w, e)  == e.x - resize_start_x[w] - box_[w].x_min
ResizedHeight(w, e) == e.y - resize_start_y[w] - box_[w].y_min
DraggedLeft(w, e)   == e.x - drag_start_x[w] - box_[w].x_min
DraggedTop(w, e)    == e.y - drag_start_y[w] - box_[w].y_min

\* (ClampWidth, were the title's length left out; ClampHeight, were there no
\* clamp.)
ClampWidth_IgnoresTitle(wd, ttl) == Max(wd, 2)
ClampHeight_None(ht) == ht

\* Clamp the window size.
ClampWidth(wd, ttl) == Max(wd, Len(ttl) + 2)
ClampHeight(ht)     == Max(ht, 2)

\* The offsets recorded by the press that starts a gesture.
ResizeStartX(w, e) == e.x - width[w] - box_[w].x_min
ResizeStartY(w, e) == e.y - height[w] - box_[w].y_min
DragStartX(w, e)   == e.x - left[w] - box_[w].x_min
DragStartY(w, e)   == e.y - top[w] - box_[w].y_min

\* (DragAtPress, were every gesture a drag.)
DragAtPress_Always(resizing) == TRUE

\* Drag only if we are not resizing a border yet.
DragAtPress(resizing) == ~resizing

\* (TakeFocus, were the focus left where it is.)
TakeFocus_Never(w) == UNCHANGED focused

\* TakeFocus(): the window becomes the focused component.
TakeFocus(w) == focused' = w

\* (HandledNotMouse, were an event that is no pointer event consumed.)
HandledNotMouse_True == TRUE
\* The result of OnEvent for an event that is no pointer event.
HandledNotMouse == FALSE
\* The result of OnEvent while the window holds the capture token.
HandledWhileCaptured == TRUE
\* The result of OnEvent for a pointer outside box_window_, no token held.
HandledOutside == FALSE
\* (HandledCaptureRefused, were the event left to the surfaces below.)
HandledCaptureRefused_False == FALSE
\* The result of OnEvent when the capture request is refused.
HandledCaptureRefused == TRUE

\* OnEvent(e) returns `result` at `line`.
Return(e, line, result) ==
  /\ event' = e
  /\ ret' = line
  /\ handled' = result
  /\ pre' = Snapshot(e.w)

\* An operation that is no call of OnEvent or Render.
NoCall ==
  /\ event' = NoEvent
  /\ ret' = 0
  /\ handled' = FALSE
  /\ pre' = NoSnapshot

\* The gesture's history is kept while the token is held, and through the
\* call that releases it.
KeepGest(w) ==
  /\ gest' = Upd(gest, w, IF captured_mouse_[w] THEN gest[w] ELSE NoGest)
  /\ UNCHANGED gestures

\* ----------------------------------------------------------------- OnEvent
\* The pointer event e reaches the window logic while the token is held.
OnEventCaptured(w, e) ==
  IF IsRelease(e)
  THEN /\ captured_mouse_' = Upd(captured_mouse_, w, FALSE)
       /\ mouse_captured' = FALSE
       /\ UNCHANGED <<left, top, width, height, drag_, resize_bottom_right_,
                      focused, hist>>
       /\ Return(e, 136, HandledWhileCaptured)
  ELSE LET wd == IF resize_bottom_right_[w]
                 THEN ResizedWidth(w, e) ELSE width[w]
           ht == IF resize_bottom_right_[w]
                 THEN ResizedHeight(w, e) ELSE height[w]
           l  == IF drag_[w] THEN DraggedLeft(w, e) ELSE left[w]
           t  == IF drag_[w] THEN DraggedTop(w, e) ELSE top[w]
       IN  /\ left' = Upd(left, w, l)
           /\ top' = Upd(top, w, t)
           /\ width' = Upd(width, w, ClampWidth(wd, title[w]))
           /\ height' = Upd(height, w, ClampHeight(ht))
           /\ gest' = Upd(gest, w, GestureAtMotion(w, e))
           /\ UNCHANGED gestures
           /\ UNCHANGED <<captured_mouse_, mouse_captured, drag_,
                          resize_bottom_right_, focused>>
           /\ Return(e, 153, HandledWhileCaptured)

\* The pointer event e reaches the window logic while no token is held;
\* hover and rhover are the flags just computed for it.
OnEventIdle(w, e, hover, rhover) ==
  IF ~hover
  THEN /\ resize_bottom_right_' = Upd(resize_bottom_right_, w, FALSE)
       /\ UNCHANGED <<left, top, width, height, captured_mouse_, drag_,
                      screen>>
       /\ gest' = Upd(gest, w, NoGest)
       /\ UNCHANGED gestures
       /\ Return(e, 158, HandledOutside)
  ELSE IF ~CaptureMouse
  THEN /\ resize_bottom_right_' = Upd(resize_bottom_right_, w, FALSE)
       /\ mouse_captured' = AfterProbe
       /\ UNCHANGED <<left, top, width, height, captured_mouse_, drag_,
                      focused>>
       /\ gest' = Upd(gest, w, NoGest)
       /\ UNCHANGED gestures
       /\ Return(e, 163, HandledCaptureRefused)
  ELSE IF ~IsLeftPress(e)
  THEN /\ resize_bottom_right_' = Upd(resize_bottom_right_, w, FALSE)
       /\ mouse_captured' = AfterProbe
       /\ UNCHANGED <<left, top, width, height, captured_mouse_, drag_,
                      focused>>
       /\ gest' = Upd(gest, w, NoGest)
       /\ UNCHANGED gestures
       /\ Return(e, 169, TRUE)
  ELSE IF AfterProbe
  THEN \* the second request is refused: the token stays null
       /\ resize_bottom_right_' = Upd(resize_bottom_right_, w, FALSE)
       /\ TakeFocus(w)
       /\ mouse_captured' = AfterProbe
       /\ UNCHANGED <<left, top, width, height, captured_mouse_, drag_>>
       /\ gest' = Upd(gest, w, NoGest)
       /\ UNCHANGED gestures
       /\ Return(e, 175, TRUE)
  ELSE /\ gestures > 0
       /\ gestures' = gestures - 1
       /\ TakeFocus(w)
       /\ captured_mouse_' = Upd(captured_mouse_, w, TRUE)
       /\ mouse_captured' = TRUE
       /\ resize_bottom_right_' = Upd(resize_bottom_right_, w, rhover)
       /\ drag_' = Upd(drag_, w, DragAtPress(rhover))
       /\ UNCHANGED <<left, top, width, height>>
       /\ gest' = Upd(gest, w, GestureAtPress(w, e))
       /\ Return(e, 187, TRUE)

\* (Offsets, were they recomputed at every event.)
Offsets_Fresh(w, e, starts) ==
  /\ resize_start_x' = Upd(resize_start_x, w, ResizeStartX(w, e))
  /\ resize_start_y' = Upd(resize_start_y, w, ResizeStartY(w, e))
  /\ drag_start_x' = Upd(drag_start_x, w, DragStartX(w, e))
  /\ drag_start_y' = Upd(drag_start_y, w, DragStartY(w, e))

\* The offsets are written by the press that starts a gesture, and by
\* nothing else.
Offsets(w, e, starts) ==
  IF starts
  THEN /\ resize_start_x' = Upd(resize_start_x, w, ResizeStartX(w, e))
       /\ resize_start_y' = Upd(resize_start_y, w, ResizeStartY(w, e))
       /\ drag_start_x' = Upd(drag_start_x, w, DragStartX(w, e))
       /\ drag_start_y' = Upd(drag_start_y, w, DragStartY(w, e))
  ELSE UNCHANGED <<drag_start_x, drag_start_y, resize_start_x,
                   resize_start_y>>

\* WindowImpl::OnEvent(event), for the window w.  e.inner is the result of
\* ComponentBase::OnEvent(event): whether the inner content handled it.
OnEvent(w, e) ==
  IF e.inner
  THEN /\ UNCHANGED <<options, fields, screen, painted>>
       /\ KeepGest(w)
       /\ Return(e, 115, TRUE)
  ELSE IF ~e.is_mouse
  THEN /\ UNCHANGED <<options, fields, screen, painted>>
       /\ KeepGest(w)
       /\ Return(e, 119, HandledNotMouse)
  ELSE LET hover  == Contain(box_window_[w], e.x, e.y)
           rhover == ResizeHover(w, e, hover)
       IN  /\ mouse_hover_' = Upd(mouse_hover_, w, hover)
           /\ resize_bottom_right_hover_' =
                Upd(resize_bottom_right_hover_, w, rhover)
           /\ UNCHANGED <<title, resize, render, box_, box_window_, painted>>
           /\ IF Capturing(w)
              THEN /\ OnEventCaptured(w, e)
                   /\ Offsets(w, e, FALSE)
              ELSE /\ OnEventIdle(w, e, hover, rhover)
                   /\ Offsets(w, e, /\ hover /\ CaptureMouse
                                     /\ IsLeftPress(e) /\ ~AfterProbe)

\* ------------------------------------------------------------ the drawing
\* One paint on the screen: of the wrapped content (all of it, stood for by
\* the first cell of its box), or of one cell of the shadow.
Paint(by, x, y) == [by |-> by, x |-> x, y |-> y]

\* (BottomContinues, were the sweep not stopped short by one.)
BottomContinues_Inclusive(b, x) == x <= b.x_max

\* The loop condition of the bottom sweep: stop short by one, the right
\* side already handled the bottom-right corner.
BottomContinues(b, x) == x < b.x_max

RECURSIVE RightSweep(_, _)
\* The right side of the window, from the row y on: the paints of
\* for (y; y <= box_.y_max; ++y) screen.PixelAt(box_.x_max+1, y+1).
RightSweep(b, y) ==
  IF y <= b.y_max
  THEN <<Paint("right", b.x_max + 1, y + 1)>> \o RightSweep(b, y + 1)
  ELSE <<>>

RECURSIVE BottomSweep(_, _)
\* The bottom side of the window, from the column x on: the paints of
\* for (x; x < box_.x_max; ++x) screen.PixelAt(x+1, box_.y_max+1).
BottomSweep(b, x) ==
  IF BottomContinues(b, x)
  THEN <<Paint("bottom", x + 1, b.y_max + 1)>> \o BottomSweep(b, x + 1)
  ELSE <<>>

\* DropShadowDecorator::Render, the decorator's box being b: the wrapped
\* content is drawn, then the two sweeps run.
DropShadowDecorator(b) ==
  <<Paint("content", b.x_min, b.y_min)>>
    \o RightSweep(b, b.y_min) \o BottomSweep(b, b.x_min)

\* The drawing of the element DefaultRenderState returns, laid out in b: the
\* frame with its title and the inner content, wrapped in the drop shadow.
DefaultRenderState(b) == DropShadowDecorator(b)

\* The drawing of the element a render-override function returns, laid out
\* in b: that element, as it is.
OverrideRenderState(b) == <<Paint("content", b.x_min, b.y_min)>>

\* render ? render(state) : DefaultRenderState(state)
RenderState(override, b) ==
  IF override THEN OverrideRenderState(b) ELSE DefaultRenderState(b)

\* ------------------------------------------------------------------ Render
\* WindowImpl::Render and the frame drawn from the element it returns: the
\* visual is composed, box_window_ and box_ are recorded from the current
\* options, and the element is drawn in box_window_; the capture probe made
\* on the way (when no token is held) is dropped at once.  (ox, oy) is the
\* origin the parent's layout gives: any for the first frame, and the same
\* one from then on.
Render(w, ox, oy) ==
  /\ box_[w] = DefaultBox \/ (box_[w].x_min = ox /\ box_[w].y_min = oy)
  /\ mouse_captured' = IF Capturing(w) THEN mouse_captured ELSE AfterProbe
  /\ box_' = Upd(box_, w, ParentBox(ox, oy))
  /\ LET b == PositionAndSize(ParentBox(ox, oy),
                              left[w], top[w], width[w], height[w])
     IN  /\ box_window_' = Upd(box_window_, w, b)
         /\ painted' = Upd(painted, w, RenderState(render[w], b))
  /\ UNCHANGED <<options, captured_mouse_, drag_start_x, drag_start_y,
                 resize_start_x, resize_start_y, mouse_hover_, drag_,
                 resize_bottom_right_, resize_bottom_right_hover_, focused>>
  /\ KeepGest(w)
  /\ event' = NoEvent
  /\ ret' = 110
  /\ handled' = FALSE
  /\ pre' = Snapshot(w)

\* ------------------------------------------------------- the other surface
\* Another component of the screen takes the exclusive capture, or drops it.
OtherCapture ==
  /\ ~mouse_captured
  /\ mouse_captured' = TRUE
  /\ UNCHANGED <<options, fields, focused, painted, hist>>
  /\ NoCall

OtherRelease ==
  /\ mouse_captured
  /\ \A w \in Windows : ~captured_mouse_[w]
  /\ mouse_captured' = FALSE
  /\ UNCHANGED <<options, fields, focused, painted, hist>>
  /\ NoCall

\* ----------------------------------------------------------- specification
Titles == {"Hi"}

\* The sizes a window is constructed with: one below both minimums, one
\* above them.
Sizes == {<<2, 1>>, <<5, 3>>}

\* The windows W, just constructed with a size of S and the resize option
\* in R, every field at its default; n gestures may be started.
InitWindows(W, S, R, n) ==
  /\ title \in [W -> Titles]
  /\ left = [w \in W |-> 0]
  /\ top = [w \in W |-> 0]
  /\ \E sz \in [W -> S] :
       /\ width = [w \in W |-> sz[w][1]]
       /\ height = [w \in W |-> sz[w][2]]
  /\ resize \in [W -> R]
  /\ box_ = [w \in W |-> DefaultBox]
  /\ box_window_ = [w \in W |-> DefaultBox]
  /\ captured_mouse_ = [w \in W |-> FALSE]
  /\ drag_start_x = [w \in W |-> 0]
  /\ drag_start_y = [w \in W |-> 0]
  /\ resize_start_x = [w \in W |-> 0]
  /\ resize_start_y = [w \in W |-> 0]
  /\ mouse_hover_ = [w \in W |-> FALSE]
  /\ drag_ = [w \in W |-> FALSE]
  /\ resize_bottom_right_ = [w \in W |-> FALSE]
  /\ resize_bottom_right_hover_ = [w \in W |-> FALSE]
  /\ mouse_captured = FALSE
  /\ focused = 0
  /\ painted = [w \in W |-> <<>>]
  /\ event = NoEvent
  /\ ret = 0
  /\ handled = FALSE
  /\ pre = NoSnapshot
  /\ gest = [w \in W |-> NoGest]
  /\ gestures = n

\* One window, no render-override function configured.
Init ==
  /\ InitWindows({1}, Sizes, BOOLEAN, MaxGestures)
  /\ render \in [Windows -> {FALSE}]

Next ==
  \/ \E w \in Windows : \E e \in Events({w}) : OnEvent(w, e)
  \/ \E w \in Windows : \E o \in 0..MaxOrigin : Render(w, o, o)
  \/ OtherCapture
  \/ OtherRelease

Spec == Init /\ [][Next]_vars

\* One gesture more, for one window constructed below the minimums with the
\* resize option on.
InitLong ==
  /\ InitWindows({1}, {<<2, 1>>}, {TRUE}, MaxGestures + 1)
  /\ render \in [Windows -> {FALSE}]

SpecLong == InitLong /\ [][Next]_vars

\* One window, with or without a render-override function.
InitRender ==
  /\ InitWindows({1}, {<<2, 1>>}, {TRUE}, MaxGestures)
  /\ render \in [Windows -> BOOLEAN]

SpecRender == InitRender /\ [][Next]_vars

\* Two windows on one screen, constructed below the minimums, which the
\* pointer events the inner contents leave to them reach in any order.
InitTwo ==
  /\ InitWindows({1, 2}, {<<2, 1>>}, {FALSE}, MaxGestures)
  /\ render \in [Windows -> {FALSE}]

NextTwo ==
  \/ \E w \in Windows : \E e \in MouseEvents({w}) : OnEvent(w, e)
  \/ \E w \in Windows : Render(w, 0, 0)

SpecTwo == InitTwo /\ [][NextTwo]_vars

\* Windows of every small size are constructed and drawn; no event comes.
InitFrames ==
  /\ InitWindows({1}, (1..MaxSize) \X (1..MaxSize), BOOLEAN, 0)
  /\ render \in [Windows -> BOOLEAN]

NextFrames == \E w \in Windows : \E o \in 0..MaxOrigin : Render(w, o, o)

SpecFrames == InitFrames /\ [][NextFrames]_vars

\* ------------------------------------------------------------------ claims
\* The last call was OnEvent on the window w with a pointer event, and it
\* got past the inner content to the window's own logic.
WindowLogicRan(w) ==
  /\ event.w = w
  /\ event.is_mouse
  /\ ret \in {136, 153, 158, 163, 169, 175, 187}

MinWidth(w) == Len(title[w]) + 2

\* The gesture of w was started with box_ at the origin it has now.
OriginAsAtPress(w) ==
  /\ box_[w].x_min = gest[w].ox
  /\ box_[w].y_min = gest[w].oy

\* The gesture of w is (was, for the call that ends it) a drag, or a resize.
Dragging(w) == pre.drag_ /\ ~pre.resize_bottom_right_
Resizing(w) == pre.resize_bottom_right_

\* C1, as stated: after the release that ends a drag (box_ origin unchanged
\* through the gesture), (left, top) is (left, top) at the press plus
\* (pointer of the release - pointer of the press).
C1_ReleasePointerDisplacement ==
  \A w \in Windows :
    (WindowLogicRan(w) /\ ret = 136 /\ Dragging(w) /\ gest[w].stable)
      => /\ left[w] = gest[w].left + (event.x - gest[w].x)
         /\ top[w] = gest[w].top + (event.y - gest[w].y)

\* C1, amended: after the release that ends a drag (box_ origin unchanged
\* through the gesture), (left, top) is (left, top) at the press plus
\* (pointer of the last event of the gesture before the release that the
\* window logic processed, the press itself if there is none - pointer of
\* the press); the pointer of the release is not applied.
C1_DragDisplacement ==
  \A w \in Windows :
    (WindowLogicRan(w) /\ ret = 136 /\ Dragging(w) /\ gest[w].stable)
      => /\ left[w] = gest[w].left + (gest[w].lx - gest[w].x)
         /\ top[w] = gest[w].top + (gest[w].ly - gest[w].y)

\* A drag that moved the pointer in both directions has just been released,
\* at a cell other than the one of its last motion.
C1_Witness ==
  \E w \in Windows :
    /\ WindowLogicRan(w) /\ ret = 136 /\ Dragging(w) /\ gest[w].stable
    /\ gest[w].lx # gest[w].x /\ gest[w].ly # gest[w].y
    /\ event.x # gest[w].lx
    /\ left[w] # gest[w].left /\ top[w] # gest[w].top

\* C2: after every motion event of a resize (box_ origin as at the press),
\* width = max(width at press + (x - x at press), title length + 2) and
\* height = max(height at press + (y - y at press), 2).
C2_ResizeFromPressOffset ==
  \A w \in Windows :
    (WindowLogicRan(w) /\ ret = 153 /\ Resizing(w) /\ OriginAsAtPress(w))
      => /\ width[w] = Max(gest[w].width + (event.x - gest[w].x), MinWidth(w))
         /\ height[w] = Max(gest[w].height + (event.y - gest[w].y), 2)

\* A resize has just followed the pointer one cell right and one cell down,
\* to a size above both minimums.
C2_Witness ==
  \E w \in Windows :
    /\ WindowLogicRan(w) /\ ret = 153 /\ Resizing(w) /\ OriginAsAtPress(w)
    /\ event.x = gest[w].x + 1 /\ event.y = gest[w].y + 1
    /\ width[w] = gest[w].width + 1 /\ width[w] > MinWidth(w)
    /\ height[w] = gest[w].height + 1

\* C3: the window acquires the token only in a call of OnEvent with a press
\* of the left button inside box_window_, made while it held no token and
\* the screen's capture was free; the gesture is then a resize iff the
\* pointer is on the bottom-right cell of box_window_ and the resize option
\* is on, and a drag otherwise.
C3_GestureStart ==
  \A w \in Windows :
    (pre.w = w /\ ~pre.captured_mouse_ /\ captured_mouse_[w])
      => /\ WindowLogicRan(w)
         /\ event.button = "Left" /\ event.motion = "Pressed"
         /\ Contain(box_window_[w], event.x, event.y)
         /\ ~pre.mouse_captured
         /\ resize_bottom_right_[w] <=>
              (/\ event.x = box_window_[w].x_max
               /\ event.y = box_window_[w].y_max
               /\ resize[w])
         /\ drag_[w] <=> ~resize_bottom_right_[w]

\* A press on the bottom-right cell, the resize option off, has just started
\* a drag.
C3_Witness ==
  \E w \in Windows :
    /\ pre.w = w /\ ~pre.captured_mouse_ /\ captured_mouse_[w]
    /\ event.x = box_window_[w].x_max /\ event.y = box_window_[w].y_max
    /\ ~resize[w]
    /\ drag_[w] /\ ~resize_bottom_right_[w]

\* C4: for a pointer event the inner content does not handle, OnEvent
\* returns true iff the window held the token when the event came or the
\* pointer is inside box_window_.
C4_Handled ==
  \A w \in Windows :
    WindowLogicRan(w)
      => (handled <=> \/ pre.captured_mouse_
                      \/ Contain(box_window_[w], event.x, event.y))

\* A motion outside box_window_ has just been handled, a gesture being
\* active.
C4_Witness ==
  \E w \in Windows :
    /\ WindowLogicRan(w) /\ ret = 153
    /\ ~Contain(box_window_[w], event.x, event.y)
    /\ handled

\* C5, as stated: every pointer event of a drag leaves width and height
\* unchanged, and every pointer event of a resize leaves left and top
\* unchanged.
C5_OnlyOwnGeometry ==
  \A w \in Windows :
    (WindowLogicRan(w) /\ ret \in {136, 153})
      => /\ Dragging(w) => width[w] = pre.width /\ height[w] = pre.height
         /\ Resizing(w) => left[w] = pre.left /\ top[w] = pre.top

\* C5, amended: every pointer event of a resize leaves left and top
\* unchanged; the release of a drag leaves width and height unchanged, and
\* every other pointer event of a drag changes them only by raising a width
\* below title length + 2 to it and a height below 2 to 2.
C5_OnlyOwnGeometryOrClamp ==
  \A w \in Windows :
    (WindowLogicRan(w) /\ ret \in {136, 153})
      => /\ (Dragging(w) /\ ret = 136)
              => width[w] = pre.width /\ height[w] = pre.height
         /\ (Dragging(w) /\ ret = 153)
              => /\ width[w] = Max(pre.width, MinWidth(w))
                 /\ height[w] = Max(pre.height, 2)
         /\ Resizing(w) => left[w] = pre.left /\ top[w] = pre.top

\* A motion of a drag has just raised the width and the height of a window
\* constructed below the minimums, and moved it.
C5_Witness ==
  \E w \in Windows :
    /\ WindowLogicRan(w) /\ ret = 153 /\ Dragging(w)
    /\ pre.width < MinWidth(w) /\ width[w] = MinWidth(w)
    /\ pre.height < 2 /\ height[w] = 2
    /\ left[w] # pre.left

\* C6, as stated: a press inside box_window_ whose capture request is
\* refused is handled, and leaves the dragging flag and the resizing flag
\* false, the token null and left, top, width and height unchanged.
C6_RefusedPressLeavesNoGesture ==
  \A w \in Windows :
    (WindowLogicRan(w) /\ ret = 163 /\ event.motion = "Pressed")
      => /\ handled
         /\ ~drag_[w] /\ ~resize_bottom_right_[w]
         /\ ~captured_mouse_[w]
         /\ left[w] = pre.left /\ top[w] = pre.top
         /\ width[w] = pre.width /\ height[w] = pre.height

\* C7, as stated: with no token held, a Released pointer event changes
\* neither left, top, width, height, nor the dragging flag, nor the resizing
\* flag, nor the token, and its result is `pointer inside box_window_`.
C7_IdleReleaseIsNoOp ==
  \A w \in Windows :
    (WindowLogicRan(w) /\ ~pre.captured_mouse_ /\ event.motion = "Released")
      => /\ left[w] = pre.left /\ top[w] = pre.top
         /\ width[w] = pre.width /\ height[w] = pre.height
         /\ drag_[w] = pre.drag_
         /\ resize_bottom_right_[w] = pre.resize_bottom_right_
         /\ captured_mouse_[w] = pre.captured_mouse_
         /\ handled <=> Contain(box_window_[w], event.x, event.y)

\* C8: every pointer event other than a release that the window logic
\* processes while the token is held ends with width >= title length + 2
\* and height >= 2; and no call of OnEvent or Render that starts with both
\* minimums met ends with one of them broken.
C8_MinimumSize ==
  \A w \in Windows :
    /\ (WindowLogicRan(w) /\ ret = 153)
         => width[w] >= MinWidth(w) /\ height[w] >= 2
    /\ (pre.w = w /\ pre.width >= MinWidth(w) /\ pre.height >= 2)
         => width[w] >= MinWidth(w) /\ height[w] >= 2

\* A motion of a resize that would have taken the width and the height
\* below the minimums has just ended at the minimums.
C8_Witness ==
  \E w \in Windows :
    /\ WindowLogicRan(w) /\ ret = 153 /\ Resizing(w) /\ OriginAsAtPress(w)
    /\ pre.width >= MinWidth(w) /\ pre.height >= 2
    /\ gest[w].width + (event.x - gest[w].x) < MinWidth(w)
    /\ gest[w].height + (event.y - gest[w].y) < 2
    /\ width[w] = MinWidth(w) /\ height[w] = 2

\* C9: the dragging flag and the resizing flag are never both true, and
\* while the window holds the token exactly one of them is true.
C9_OneGestureFlag ==
  \A w \in Windows :
    /\ ~(drag_[w] /\ resize_bottom_right_[w])
    /\ captured_mouse_[w] => (drag_[w] \/ resize_bottom_right_[w])

\* The window holds the token for a resize, begun when the dragging flag was
\* still true from an earlier drag.
C9_Witness ==
  \E w \in Windows :
    /\ captured_mouse_[w] /\ resize_bottom_right_[w] /\ ~drag_[w]
    /\ ret = 187 /\ pre.drag_

\* C10, as stated: in every state between two calls, the token is non-null
\* iff the dragging flag or the resizing flag is true.
C10_TokenIffGestureFlag ==
  \A w \in Windows :
    captured_mouse_[w] <=> (drag_[w] \/ resize_bottom_right_[w])

\* C11: at most one window holds a capture token, and a window holds one
\* only while the screen's capture is taken; and a press delivered to a
\* window while another window holds the token gives the pressed window
\* no token, starts no gesture of it and leaves its left, top, width and
\* height unchanged.
C11_OneHolder ==
  /\ Cardinality({w \in Windows : captured_mouse_[w]}) <= 1
  /\ \A w \in Windows : captured_mouse_[w] => mouse_captured
  /\ \A w \in Windows : \A v \in Windows \ {w} :
       (/\ captured_mouse_[w]
        /\ event.w = v /\ event.is_mouse /\ event.motion = "Pressed"
        /\ ret # 0)
         => /\ ~captured_mouse_[v]
            /\ ret \in {158, 163}
            /\ drag_[v] = pre.drag_ /\ ~resize_bottom_right_[v]
            /\ left[v] = pre.left /\ top[v] = pre.top
            /\ width[v] = pre.width /\ height[v] = pre.height

\* A left press inside the box_window_ of one window has just been refused,
\* another window holding the token; the pressed window is below the
\* minimum width.
C11_Witness ==
  \E w \in Windows : \E v \in Windows \ {w} :
    /\ captured_mouse_[w]
    /\ event.w = v /\ IsLeftPress(event) /\ ret = 163
    /\ Contain(box_window_[v], event.x, event.y)
    /\ ~captured_mouse_[v]
    /\ width[v] < MinWidth(v)

\* The cells the paints of stage `by` of the last frame of w were made on,
\* and the places of those paints in the frame.
PaintsBy(w, by) ==
  {i \in DOMAIN painted[w] : painted[w][i].by = by}
CellsBy(w, by) ==
  {<<painted[w][i].x, painted[w][i].y>> : i \in PaintsBy(w, by)}
ShadowPaints(w) == PaintsBy(w, "right") \cup PaintsBy(w, "bottom")

\* The last call drew a frame of w with the drop shadow, the decorated
\* element having at least one cell.
ShadowDrawn(w) ==
  /\ ret = 110 /\ pre.w = w /\ ~render[w]
  /\ box_window_[w].x_min <= box_window_[w].x_max
  /\ box_window_[w].y_min <= box_window_[w].y_max

\* C12: for every box with x_min <= x_max and y_min <= y_max, the right
\* sweep paints exactly the cells (x_max+1, y+1), y in y_min..y_max, the
\* bottom sweep exactly the cells (x+1, y_max+1), x in x_min..x_max-1; no
\* cell is painted twice, the corner (x_max+1, y_max+1) is painted exactly
\* once, by the right sweep, and some cell is painted.
C12_ShadowCells ==
  \A w \in Windows :
    ShadowDrawn(w) =>
      LET b == box_window_[w]
          f == painted[w]
      IN  /\ CellsBy(w, "right") =
               {<<b.x_max + 1, y + 1>> : y \in b.y_min..b.y_max}
          /\ CellsBy(w, "bottom") =
               {<<x + 1, b.y_max + 1>> : x \in b.x_min..(b.x_max - 1)}
          /\ \A i, j \in ShadowPaints(w) :
               (f[i].x = f[j].x /\ f[i].y = f[j].y) => i = j
          /\ \E i \in PaintsBy(w, "right") :
               /\ f[i].x = b.x_max + 1 /\ f[i].y = b.y_max + 1
               /\ \A j \in ShadowPaints(w) :
                    (f[j].x = f[i].x /\ f[j].y = f[i].y) => j = i
          /\ ShadowPaints(w) # {}

\* A frame has just been drawn with a shadow of three cells to the right
\* and two cells below.
C12_Witness ==
  \E w \in Windows :
    /\ ShadowDrawn(w)
    /\ Cardinality(PaintsBy(w, "right")) = 3
    /\ Cardinality(PaintsBy(w, "bottom")) = 2

\* The rectangle of width[w] x height[w] cells whose first cell is left[w]
\* columns right of and top[w] rows below the first cell of box_[w].
WindowRectangle(w) ==
  [x_min |-> box_[w].x_min + left[w],
   x_max |-> box_[w].x_min + left[w] + width[w] - 1,
   y_min |-> box_[w].y_min + top[w],
   y_max |-> box_[w].y_min + top[w] + height[w] - 1]

\* The call found box_ and box_window_ as a render of the geometry it found
\* leaves them.
FoundFresh ==
  /\ pre.box_ # DefaultBox
  /\ pre.box_window_.x_min = pre.box_.x_min + pre.left
  /\ pre.box_window_.x_max = pre.box_.x_min + pre.left + pre.width - 1
  /\ pre.box_window_.y_min = pre.box_.y_min + pre.top
  /\ pre.box_window_.y_max = pre.box_.y_min + pre.top + pre.height - 1

\* C13: Render changes neither left, top, width, height, nor the gesture
\* flags, nor the offsets, nor the token; after every render box_window_ is
\* the rectangle given by the current left, top, width and height; and a
\* render that finds box_ and box_window_ as a render of the same geometry
\* left them leaves box_, box_window_ and the drawing as they are.
C13_RenderRefreshesBoxes ==
  \A w \in Windows :
    (ret = 110 /\ pre.w = w) =>
      /\ left[w] = pre.left /\ top[w] = pre.top
      /\ width[w] = pre.width /\ height[w] = pre.height
      /\ drag_[w] = pre.drag_
      /\ resize_bottom_right_[w] = pre.resize_bottom_right_
      /\ drag_start_x[w] = pre.drag_start_x
      /\ drag_start_y[w] = pre.drag_start_y
      /\ resize_start_x[w] = pre.resize_start_x
      /\ resize_start_y[w] = pre.resize_start_y
      /\ captured_mouse_[w] = pre.captured_mouse_
      /\ box_window_[w] = WindowRectangle(w)
      /\ FoundFresh => /\ box_[w] = pre.box_
                       /\ box_window_[w] = pre.box_window_
                       /\ painted[w] = pre.painted

\* During a drag that has moved the window, a render has just followed the
\* render that recorded the move.
C13_Witness ==
  \E w \in Windows :
    /\ ret = 110 /\ pre.w = w /\ FoundFresh
    /\ captured_mouse_[w] /\ drag_[w]
    /\ left[w] # 0 /\ top[w] # 0
    /\ box_window_[w] = pre.box_window_
    /\ painted[w] # <<>>

\* C14, as stated: whenever OnEvent is called with a Released pointer event
\* while the window holds the token, the token is null when the call
\* returns, whatever the inner content does with the event.
C14_ReleaseDropsToken ==
  \A w \in Windows :
    (/\ event.w = w /\ event.is_mouse /\ event.motion = "Released"
     /\ pre.w = w /\ pre.captured_mouse_)
      => ~captured_mouse_[w]

\* The window logic has just processed a pointer event that found no token
\* held, the pointer inside box_window_ and the screen's capture free (so
\* that the capture request succeeded).
ProbeGranted(w) ==
  /\ WindowLogicRan(w)
  /\ ~pre.captured_mouse_
  /\ Contain(box_window_[w], event.x, event.y)
  /\ ~pre.mouse_captured

\* C15, as stated: for every pointer event (any button, any motion) received
\* while no gesture is active, the pointer inside box_window_ and the
\* capture request succeeding, the window has the focus when the event has
\* been processed.
C15_FocusOnAnyEvent ==
  \A w \in Windows : ProbeGranted(w) => focused = w

\* C15, amended: for every press of the left button received while no
\* gesture is active, the pointer inside box_window_ and the capture request
\* succeeding, the window has the focus when the event has been processed.
C15_FocusOnLeftPress ==
  \A w \in Windows :
    (ProbeGranted(w) /\ event.button = "Left" /\ event.motion = "Pressed")
      => focused = w

\* A left press inside box_window_ has just given the focus to a window that
\* did not have it.
C15_Witness ==
  \E w \in Windows :
    /\ ProbeGranted(w) /\ event.button = "Left" /\ event.motion = "Pressed"
    /\ pre.focused # w /\ focused = w

\* The four offsets of w are as the last call found them.
OffsetsKept(w) ==
  /\ drag_start_x[w] = pre.drag_start_x
  /\ drag_start_y[w] = pre.drag_start_y
  /\ resize_start_x[w] = pre.resize_start_x
  /\ resize_start_y[w] = pre.resize_start_y

\* C16: a call changes the offsets only if it is the press that starts a
\* gesture; while the token is held the offsets are those that press
\* recorded; and after every pointer event of a drag other than the release
\* (box_ origin as at the press), left = left at press + (x - x at press)
\* and top = top at press + (y - y at press).
C16_OffsetsFromPress ==
  \A w \in Windows :
    /\ (pre.w = w /\ ~OffsetsKept(w)) => (WindowLogicRan(w) /\ ret = 187)
    /\ captured_mouse_[w] =>
         /\ drag_start_x[w] = gest[w].x - gest[w].left - gest[w].ox
         /\ drag_start_y[w] = gest[w].y - gest[w].top - gest[w].oy
         /\ resize_start_x[w] = gest[w].x - gest[w].width - gest[w].ox
         /\ resize_start_y[w] = gest[w].y - gest[w].height - gest[w].oy
    /\ (WindowLogicRan(w) /\ ret = 153 /\ Dragging(w) /\ OriginAsAtPress(w))
         => /\ left[w] = gest[w].left + (event.x - gest[w].x)
            /\ top[w] = gest[w].top + (event.y - gest[w].y)

\* A motion of a drag has just moved a window that an earlier motion of the
\* same drag had moved already.
C16_Witness ==
  \E w \in Windows :
    /\ WindowLogicRan(w) /\ ret = 153 /\ Dragging(w) /\ OriginAsAtPress(w)
    /\ pre.left # gest[w].left
    /\ event.x # gest[w].x /\ event.y # gest[w].y
    /\ top[w] # pre.top
    /\ OffsetsKept(w)

\* C17: for an event that is no pointer event, OnEvent returns true if the
\* inner content handles it, and otherwise the window logic returns false;
\* either way every field of the window, its geometry, the screen's
\* capture and the focus are as the call found them, a gesture being
\* active or not.
C17_NotMouseIgnored ==
  \A w \in Windows :
    (event.w = w /\ ~event.is_mouse)
      => /\ ret = IF event.inner THEN 115 ELSE 119
         /\ handled <=> event.inner
         /\ Snapshot(w) = pre

\* During a drag, with the pointer over the window, an event that is no
\* pointer event and that the inner content does not handle has just been
\* returned unhandled.
C17_Witness ==
  \E w \in Windows :
    /\ event.w = w /\ ~event.is_mouse /\ ~event.inner
    /\ ret = 119 /\ ~handled
    /\ captured_mouse_[w] /\ drag_[w] /\ mouse_hover_[w]
    /\ left[w] # 0

\* C18, as stated: every render with width > 0 and height > 0, with or
\* without a render-override function, paints cells of the drop shadow, and
\* paints each of them after the wrapped content has been drawn.
C18_ShadowOnEveryRender ==
  \A w \in Windows :
    (ret = 110 /\ pre.w = w /\ width[w] > 0 /\ height[w] > 0)
      => /\ ShadowPaints(w) # {}
         /\ PaintsBy(w, "content") # {}
         /\ \A i \in ShadowPaints(w) :
              \A j \in PaintsBy(w, "content") : j < i

\* left, top, width and height of w are as the last call found them.
GeometryKept(w) ==
  /\ left[w] = pre.left /\ top[w] = pre.top
  /\ width[w] = pre.width /\ height[w] = pre.height

\* C19: a call of OnEvent or Render changes left, top, width or height only
\* if it is a pointer event other than a release, processed by the window
\* logic while the window holds the token; hover events, the press that
\* starts a gesture, the release that ends it and every pointer event with
\* no token held leave all four unchanged.
C19_GeometryOnlyInGesture ==
  \A w \in Windows :
    (pre.w = w /\ ~GeometryKept(w))
      => /\ WindowLogicRan(w) /\ ret = 153
         /\ event.motion # "Released"
         /\ pre.captured_mouse_

\* The release of a drag that had moved the window has just come at a cell
\* other than the one of the last motion, and has not moved the window.
C19_Witness ==
  \E w \in Windows :
    /\ WindowLogicRan(w) /\ ret = 136 /\ event.motion = "Released"
    /\ pre.drag_ /\ left[w] # gest[w].left
    /\ event.x # gest[w].lx
    /\ GeometryKept(w)

\* The last call made a capture probe for w: a pointer event inside
\* box_window_ processed with no token held (line 162), or a render with no
\* token held (lines 92-93).
ProbeMade(w) ==
  /\ pre.w = w /\ ~pre.captured_mouse_
  /\ \/ WindowLogicRan(w) /\ Contain(box_window_[w], event.x, event.y)
     \/ ret = 110

\* C20: the capture probe is not retained: after every pointer event for
\* which it is made and that does not start a gesture (a hover motion, a
\* button event that is no left press, a release), and after every render
\* for which it is made, the window holds no token and the screen's capture
\* is taken or free as it was before.
C20_ProbeNotRetained ==
  \A w \in Windows :
    (ProbeMade(w) /\ ret # 187)
      => /\ ~captured_mouse_[w]
         /\ mouse_captured = pre.mouse_captured

\* A hover motion inside box_window_, the capture free, has just been
\* handled, and the capture is free still.
C20_Witness ==
  \E w \in Windows :
    /\ ProbeMade(w) /\ ret = 169 /\ event.motion = "Moved"
    /\ ~pre.mouse_captured
    /\ ~captured_mouse_[w] /\ ~mouse_captured

=============================================================================
